---- MODULE Spec2Model ----
(***************************************************************************)
(* The messaging paywall of the Luxury Coach Exchange backend              *)
(* (src/server.js over the schema of src/unnamed/part_000).                *)
(*                                                                         *)
(* The persistent store is the PostgreSQL database: the tables users,      *)
(* listings, conversations and messages.  Every `await pool.query(...)` of *)
(* a handler is one atomic statement of the store; a handler with several  *)
(* statements is a sequence of steps that other requests interleave with.  *)
(* The code that runs between the last statement and the response reads    *)
(* only the handler's locals, so it is part of that last step.             *)
(*                                                                         *)
(* The clients are the environment.  A run serves one workload: opening    *)
(* conversations, messaging in an open conversation, reading two open      *)
(* conversations, messaging over time, two buyers writing at the same      *)
(* time, or accounts and payments; the handlers are the same in all.       *)
(***************************************************************************)
EXTENDS Integers, Sequences, FiniteSets, TLC

VARIABLES
  users,          \* table users: id -> row (only the registered ids)
  listings,       \* table listings: id -> row
  conversations,  \* table conversations: sequence of rows, id = position
  messages,       \* table messages: sequence of rows in insertion order, id = position
  clock,          \* the store's NOW()
  inflight,       \* connection -> the handler running on it, with its locals
  resp,           \* the response sent by the last step, if it sent one
  workload        \* the environment: the kind of requests the clients of this run send

vars == <<users, listings, conversations, messages, clock, inflight, resp, workload>>

----------------------------------------------------------------------------
(* The universe of the model. *)

\* s owns the listing, b is a buyer, x has no account until it signs up.
UserIds == {"s", "b", "x"}
ListingIds == {"L"}
NoListing == "L404"
Statuses == {"active", "sold"}
Texts == {"hello"}
EmptyText == ""
PayRefs == {"pi_1", "pi_2"}
Names == {"n0", "n1"}
\* Requests handled at the same time.
Conns == {"c1", "c2"}

\* Bounds of the model.
MaxMsgs == 2
MaxConvs == 3
MaxClock == 1

\* SQL NULL / a JavaScript undefined is the empty tuple, a value v is <<v>>.
Null == << >>
Some(v) == <<v>>

Idle == [op |-> "idle"]
NoResp == [op |-> "none"]

\* The text a locked message is replaced by.
Placeholder == "[Message locked - pay $500 to unlock]"

----------------------------------------------------------------------------
(* The schema: row defaults and constraints. *)

\* users: paid BOOLEAN DEFAULT FALSE, stripe_payment_id and paid_at NULL.
NewUser(name) ==
  [paid |-> FALSE, stripe_payment_id |-> Null, paid_at |-> Null, name |-> name]

NewConversationSwapsParties(id, listing_id, buyer_id, seller_id, now) ==
  [id |-> id, listing_id |-> listing_id, buyer_id |-> seller_id,
   seller_id |-> buyer_id, updated_at |-> now]

\* conversations: created_at and updated_at DEFAULT NOW().
NewConversation(id, listing_id, buyer_id, seller_id, now) ==
  [id |-> id, listing_id |-> listing_id, buyer_id |-> buyer_id,
   seller_id |-> seller_id, updated_at |-> now]

\* messages: read BOOLEAN DEFAULT FALSE, created_at DEFAULT NOW().
NewMessage(id, conversation_id, sender_id, text, now) ==
  [id |-> id, conversation_id |-> conversation_id, sender_id |-> sender_id,
   text |-> text, read |-> FALSE, created_at |-> now]

UniqueViolationOff(convs, listing_id, buyer_id) == FALSE

\* conversations: UNIQUE(listing_id, buyer_id) rejects the insert of a second row.
UniqueViolation(convs, listing_id, buyer_id) ==
  \E i \in 1..Len(convs) :
    convs[i].listing_id = listing_id /\ convs[i].buyer_id = buyer_id

----------------------------------------------------------------------------
(* Statements of the store. *)

\* COALESCE($1, old)
Coalesce(opt, old) == IF opt = Null THEN old ELSE opt[1]

ConvByListingSeller(convs, listing_id, buyer_id) ==
  SelectSeq(convs, LAMBDA c : c.listing_id = listing_id /\ c.seller_id = buyer_id)

\* SELECT * FROM conversations WHERE listing_id = $1 AND buyer_id = $2
ConvByListingBuyer(convs, listing_id, buyer_id) ==
  SelectSeq(convs, LAMBDA c : c.listing_id = listing_id /\ c.buyer_id = buyer_id)

ConvForAnyone(convs, id, user_id) ==
  SelectSeq(convs, LAMBDA c : c.id = id)

\* SELECT * FROM conversations WHERE id = $1 AND (buyer_id = $2 OR seller_id = $2)
ConvForParticipant(convs, id, user_id) ==
  SelectSeq(convs, LAMBDA c : c.id = id /\ (c.buyer_id = user_id \/ c.seller_id = user_id))

\* SELECT ... FROM conversations c WHERE c.buyer_id = $1 OR c.seller_id = $1
ConvsOfUser(convs, user_id) ==
  SelectSeq(convs, LAMBDA c : c.buyer_id = user_id \/ c.seller_id = user_id)

\* SELECT m.* FROM messages m WHERE m.conversation_id = $1 ORDER BY m.created_at ASC
MsgsOfConv(msgs, conversation_id) ==
  SelectSeq(msgs, LAMBDA m : m.conversation_id = conversation_id)

MarkReadEveryConversation(msgs, conversation_id, user_id) ==
  [i \in 1..Len(msgs) |->
     IF msgs[i].sender_id # user_id THEN [msgs[i] EXCEPT !.read = TRUE] ELSE msgs[i]]

MarkReadToggles(msgs, conversation_id, user_id) ==
  [i \in 1..Len(msgs) |->
     IF msgs[i].conversation_id = conversation_id /\ msgs[i].sender_id # user_id
       THEN [msgs[i] EXCEPT !.read = ~msgs[i].read]
       ELSE msgs[i]]

MarkReadResetsOwn(msgs, conversation_id, user_id) ==
  [i \in 1..Len(msgs) |->
     IF msgs[i].conversation_id = conversation_id
       THEN [msgs[i] EXCEPT !.read = (msgs[i].sender_id # user_id)]
       ELSE msgs[i]]

\* UPDATE messages SET read = true WHERE conversation_id = $1 AND sender_id != $2
MarkRead(msgs, conversation_id, user_id) ==
  [i \in 1..Len(msgs) |->
     IF msgs[i].conversation_id = conversation_id /\ msgs[i].sender_id # user_id
       THEN [msgs[i] EXCEPT !.read = TRUE]
       ELSE msgs[i]]

\* UPDATE listings SET ..., status=COALESCE($13,status), updated_at=NOW() WHERE id = $14
SetListing(ls, id, status) ==
  [l \in DOMAIN ls |->
     IF l = id THEN [ls[l] EXCEPT !.status = Coalesce(status, ls[l].status)] ELSE ls[l]]

BumpSkipped(convs, id, now) == convs

\* UPDATE conversations SET updated_at = NOW() WHERE id = $1
BumpConversation(convs, id, now) ==
  [i \in 1..Len(convs) |->
     IF convs[i].id = id THEN [convs[i] EXCEPT !.updated_at = now] ELSE convs[i]]

SetPaidToggles(us, user_id, payment_intent, now) ==
  [u \in DOMAIN us |->
     IF u = user_id
       THEN [us[u] EXCEPT !.paid = ~us[u].paid,
                          !.stripe_payment_id = payment_intent,
                          !.paid_at = Some(now)]
       ELSE us[u]]

\* UPDATE users SET paid = TRUE, stripe_payment_id = $1, paid_at = NOW() WHERE id = $2
SetPaid(us, user_id, payment_intent, now) ==
  [u \in DOMAIN us |->
     IF u = user_id
       THEN [us[u] EXCEPT !.paid = TRUE,
                          !.stripe_payment_id = payment_intent,
                          !.paid_at = Some(now)]
       ELSE us[u]]

SetProfileResetsPaid(us, user_id, name) ==
  [u \in DOMAIN us |->
     IF u = user_id
       THEN [us[u] EXCEPT !.name = Coalesce(name, us[u].name), !.paid = FALSE]
       ELSE us[u]]

SetProfileUnlocks(us, user_id, name) ==
  [u \in DOMAIN us |->
     IF u = user_id
       THEN [us[u] EXCEPT !.name = Coalesce(name, us[u].name), !.paid = TRUE]
       ELSE us[u]]

\* UPDATE users SET name = COALESCE($1, name), phone = COALESCE($2, phone) WHERE id = $3
SetProfile(us, user_id, name) ==
  [u \in DOMAIN us |->
     IF u = user_id
       THEN [us[u] EXCEPT !.name = Coalesce(name, us[u].name)]
       ELSE us[u]]

\* INSERT INTO users (name, email, password_hash, role)
InsertUser(us, user_id, name) ==
  [u \in DOMAIN us \cup {user_id} |-> IF u = user_id THEN NewUser(name) ELSE us[u]]

----------------------------------------------------------------------------
(* The paywall decisions. *)

LockedIgnoresPaid(isSeller, sellerPaid, c, m) ==
  isSeller /\ m.sender_id = c.buyer_id

\* if (isSeller && !sellerPaid && m.sender_id === c.buyer_id)
Locked(isSeller, sellerPaid, c, m) ==
  isSeller /\ ~sellerPaid /\ m.sender_id = c.buyer_id

\* msgs.rows.map(m => locked ? {...m, text: placeholder, locked: true} : {...m, locked: false})
ViewModel(isSeller, sellerPaid, c, m) ==
  [id |-> m.id, conversation_id |-> m.conversation_id, sender_id |-> m.sender_id,
   read |-> m.read, created_at |-> m.created_at,
   text |-> IF Locked(isSeller, sellerPaid, c, m) THEN Placeholder ELSE m.text,
   locked |-> Locked(isSeller, sellerPaid, c, m)]

SendBlockedPaidToo(isSeller, paid) == isSeller

SendBlockedNever(isSeller, paid) == FALSE

\* if (isSeller) { ... if (!seller.rows[0].paid) return 403 }
SendBlocked(isSeller, paid) == isSeller /\ ~paid

SelfMessageAllowed(seller_id, user_id) == FALSE

\* if (seller_id === req.user.id) return 400
SelfMessage(seller_id, user_id) == seller_id = user_id

----------------------------------------------------------------------------
(* Requests. *)

\* A new request is taken by the first idle connection.
\* The previous step's response has left: the next step of any request may run.
Ready == resp = NoResp

FreeConn(k) ==
  /\ Ready
  /\ inflight[k].op = "idle"
  /\ (k = "c2" => inflight["c1"].op # "idle")

At(k, op, pc) == Ready /\ inflight[k].op = op /\ inflight[k].pc = pc

\* res.json(...): the response of the last step leaves the server.
Respond ==
  /\ resp # NoResp
  /\ resp' = NoResp
  /\ UNCHANGED <<users, listings, conversations, messages, clock, inflight, workload>>

\* auth: the bearer token names a user that signed up.
Authenticated(u) == u \in DOMAIN users

Reply(k, r) ==
  /\ inflight' = [inflight EXCEPT ![k] = Idle]
  /\ resp' = r

Goto(k, r) ==
  /\ inflight' = [inflight EXCEPT ![k] = r]
  /\ resp' = NoResp

\* The requests each workload sends.
Sends(op) ==
  op \in CASE workload = "conversations" ->
                  {"getOrCreate", "list", "signup", "updateListing", "tick"}
           [] workload = "messaging" -> {"view", "append", "webhook"}
           [] workload = "reading" -> {"view", "append", "list"}
           [] workload = "timeline" -> {"append", "list", "tick"}
           [] workload = "ordering" -> {"append", "list", "tick"}
           [] workload = "payments" -> {"webhook", "profile", "checkout", "status", "tick"}

\* The store after setup: the accounts of regs exist, s has listed L, and the
\* conversations convs with the messages msgs exist.
InitOf(w, regs, convs, msgs) ==
  /\ workload = w
  /\ users = [u \in regs |-> NewUser("n0")]
  /\ listings = [l \in ListingIds |-> [seller_id |-> "s", status |-> "active"]]
  /\ conversations = convs
  /\ messages = msgs
  /\ clock = 0
  /\ inflight = [k \in Conns |-> Idle]
  /\ resp = NoResp

Init ==
  \/ InitOf("conversations", {"s", "b"}, << >>, << >>)
     \* b has opened the conversation about L; x has an account.
  \/ InitOf("messaging", UserIds, <<NewConversation(1, "L", "b", "s", 0)>>, << >>)
     \* b and x have each opened a conversation about L and written to s.
  \/ InitOf("reading", UserIds,
            <<NewConversation(1, "L", "b", "s", 0), NewConversation(2, "L", "x", "s", 0)>>,
            <<NewMessage(1, 1, "b", "hello", 0), NewMessage(2, 2, "x", "hello", 0)>>)
  \/ InitOf("timeline", UserIds, <<NewConversation(1, "L", "b", "s", 0)>>, << >>)
     \* b and x have each opened a conversation about L.
  \/ InitOf("ordering", UserIds,
            <<NewConversation(1, "L", "b", "s", 0), NewConversation(2, "L", "x", "s", 0)>>,
            << >>)
  \/ InitOf("payments", {"s", "b"}, << >>, << >>)

\* How far the store's time moves on: in the ordering workload, once for
\* each conversation.
ClockLimit == IF workload = "ordering" THEN Len(conversations) ELSE MaxClock

\* Time passes.
Tick ==
  /\ Ready
  /\ Sends("tick")
  /\ clock < ClockLimit
  /\ clock' = clock + 1
  /\ resp' = NoResp
  /\ UNCHANGED <<users, listings, conversations, messages, inflight, workload>>

----------------------------------------------------------------------------
(* POST /api/conversations: getOrCreate *)

GocResp(r, status, error, rows, created) ==
  [op |-> "getOrCreate", status |-> status, error |-> error, user |-> r.user,
   listing_id |-> r.listing_id, conversation |-> rows, created |-> created]

\* SELECT seller_id FROM listings WHERE id = $1, and the two early returns
GocSelectListing(k, u, l) ==
  /\ FreeConn(k)
  /\ Authenticated(u)
  /\ LET r == [op |-> "getOrCreate", pc |-> "selectConvo", user |-> u, listing_id |-> l]
     IN  IF l \notin DOMAIN listings
           THEN Reply(k, GocResp(r, 404, "NotFound", << >>, FALSE))
           ELSE IF SelfMessage(listings[l].seller_id, u)
             THEN Reply(k, GocResp(r, 400, "InvalidOperation", << >>, FALSE))
             ELSE Goto(k, r @@ [seller_id |-> listings[l].seller_id])
  /\ UNCHANGED <<users, listings, conversations, messages, clock, workload>>

\* SELECT * FROM conversations WHERE listing_id = $1 AND buyer_id = $2
GocSelectConvo(k) ==
  /\ At(k, "getOrCreate", "selectConvo")
  /\ LET r == inflight[k]
         rows == ConvByListingBuyer(conversations, r.listing_id, r.user)
     IN  IF Len(rows) = 0
           THEN Goto(k, [r EXCEPT !.pc = "insert"])
           ELSE Reply(k, GocResp(r, 200, "", <<rows[1]>>, FALSE))
  /\ UNCHANGED <<users, listings, conversations, messages, clock, workload>>

\* INSERT INTO conversations (listing_id, buyer_id, seller_id) ... RETURNING *
\* A violation of UNIQUE(listing_id, buyer_id) throws into the catch: 500.
GocInsert(k) ==
  /\ At(k, "getOrCreate", "insert")
  /\ LET r == inflight[k]
         row == NewConversation(Len(conversations) + 1, r.listing_id, r.user,
                                r.seller_id, clock)
     IN  IF UniqueViolation(conversations, r.listing_id, r.user)
           THEN /\ Reply(k, GocResp(r, 500, "ServerError", << >>, FALSE))
                /\ UNCHANGED conversations
           ELSE /\ Len(conversations) < MaxConvs
                /\ conversations' = Append(conversations, row)
                /\ Reply(k, GocResp(r, 200, "", <<row>>, TRUE))
  /\ UNCHANGED <<users, listings, messages, clock, workload>>

----------------------------------------------------------------------------
(* PUT /api/listings/:id *)

ListingResp(r, status, error) ==
  [op |-> "updateListing", status |-> status, error |-> error, user |-> r.user,
   listing_id |-> r.listing_id]

\* SELECT seller_id FROM listings WHERE id = $1, and the two early returns
UpdateListingSelect(k, u, l, status) ==
  /\ FreeConn(k)
  /\ Authenticated(u)
  /\ LET r == [op |-> "updateListing", pc |-> "update", user |-> u, listing_id |-> l,
               status |-> status]
     IN  IF l \notin DOMAIN listings
           THEN Reply(k, ListingResp(r, 404, "NotFound"))
           ELSE IF listings[l].seller_id # u
             THEN Reply(k, ListingResp(r, 403, "Forbidden"))
             ELSE Goto(k, r)
  /\ UNCHANGED <<users, listings, conversations, messages, clock, workload>>

\* UPDATE listings SET ... WHERE id = $14 RETURNING *
UpdateListingUpdate(k) ==
  /\ At(k, "updateListing", "update")
  /\ LET r == inflight[k]
     IN  /\ listings' = SetListing(listings, r.listing_id, r.status)
         /\ Reply(k, ListingResp(r, 200, ""))
  /\ UNCHANGED <<users, conversations, messages, clock, workload>>

----------------------------------------------------------------------------
(* GET /api/conversations: list *)

\* The messages of a conversation with the latest created_at:
\* ORDER BY created_at DESC LIMIT 1 returns one of them.
LatestMsgs(msgs, conversation_id) ==
  LET ms == MsgsOfConv(msgs, conversation_id)
  IN  {i \in 1..Len(ms) : \A j \in 1..Len(ms) : ms[j].created_at <= ms[i].created_at}

UnreadCountOwnToo(msgs, conversation_id, user_id) ==
  Len(SelectSeq(msgs, LAMBDA m : m.conversation_id = conversation_id /\ ~m.read))

\* (SELECT COUNT(*) FROM messages WHERE conversation_id = c.id
\*    AND sender_id != $1 AND read = false)
UnreadCount(msgs, conversation_id, user_id) ==
  Len(SelectSeq(msgs, LAMBDA m : /\ m.conversation_id = conversation_id
                                 /\ m.sender_id # user_id
                                 /\ ~m.read))

\* One row of the list: c.* with last_message and unread_count; last is the
\* position of the message ORDER BY created_at DESC LIMIT 1 picked (0: none).
ListRow(msgs, c, user_id, last) ==
  LET ms == MsgsOfConv(msgs, c.id)
  IN  [id |-> c.id, listing_id |-> c.listing_id, buyer_id |-> c.buyer_id,
       seller_id |-> c.seller_id, updated_at |-> c.updated_at,
       last_message |-> IF last = 0 THEN Null ELSE Some(ms[last].text),
       last_message_at |-> IF last = 0 THEN Null ELSE Some(ms[last].created_at),
       unread_count |-> UnreadCount(msgs, c.id, user_id)]

\* ORDER BY c.updated_at DESC
IsOrderedDesc(rows) ==
  \A i \in 1..Len(rows) : \A j \in 1..Len(rows) :
    i < j => rows[i].updated_at >= rows[j].updated_at

\* A permutation of 1..n
Perms(n) == {p \in [1..n -> 1..n] : \A i \in 1..n : \E j \in 1..n : p[j] = i}

ListConversations(u) ==
  /\ Ready
  /\ Authenticated(u)
  /\ LET cs == ConvsOfUser(conversations, u)
     IN  \E p \in Perms(Len(cs)) :
         \E last \in [1..Len(cs) -> 0..MaxMsgs] :
           /\ \A i \in 1..Len(cs) :
                IF LatestMsgs(messages, cs[i].id) = {}
                  THEN last[i] = 0
                  ELSE last[i] \in LatestMsgs(messages, cs[i].id)
           /\ LET rows == [i \in 1..Len(cs) |-> ListRow(messages, cs[p[i]], u, last[p[i]])]
              IN  /\ IsOrderedDesc(rows)
                  /\ resp' = [op |-> "list", status |-> 200, error |-> "", user |-> u,
                              conversations |-> rows]
  /\ UNCHANGED <<users, listings, conversations, messages, clock, inflight, workload>>

----------------------------------------------------------------------------
(* GET /api/conversations/:id/messages: listForConversation *)

ViewResp(r, status, error, msgs, locked) ==
  [op |-> "view", status |-> status, error |-> error, req |-> r,
   messages |-> msgs, locked |-> locked]

\* SELECT * FROM conversations WHERE id = $1 AND (buyer_id = $2 OR seller_id = $2);
\* let sellerPaid = true
ViewSelectConvo(k, u, id) ==
  /\ FreeConn(k)
  /\ Authenticated(u)
  /\ LET rows == ConvForParticipant(conversations, id, u)
         \* paidAtStart: the paid flag of the caller as the request arrived (history).
         r == [op |-> "view", pc |-> "selectPaid", user |-> u, id |-> id,
               paidAtStart |-> users[u].paid]
     IN  IF Len(rows) = 0
           THEN Reply(k, ViewResp(r, 403, "Forbidden", << >>, FALSE))
           ELSE LET c == rows[1]
                    isSeller == c.seller_id = u
                    q == r @@ [c |-> c, isSeller |-> isSeller, sellerPaid |-> TRUE]
                IN  IF isSeller
                      THEN Goto(k, q)
                      ELSE Goto(k, [q EXCEPT !.pc = "selectMsgs"])
  /\ UNCHANGED <<users, listings, conversations, messages, clock, workload>>

\* SELECT paid FROM users WHERE id = $1
ViewSelectPaid(k) ==
  /\ At(k, "view", "selectPaid")
  /\ LET r == inflight[k]
     IN  Goto(k, [r EXCEPT !.pc = "selectMsgs", !.sellerPaid = users[r.user].paid])
  /\ UNCHANGED <<users, listings, conversations, messages, clock, workload>>

\* SELECT m.* FROM messages m ... WHERE m.conversation_id = $1 ORDER BY m.created_at ASC
ViewSelectMsgs(k) ==
  /\ At(k, "view", "selectMsgs")
  /\ LET r == inflight[k]
     IN  Goto(k, [r EXCEPT !.pc = "markRead"] @@ [msgs |-> MsgsOfConv(messages, r.id)])
  /\ UNCHANGED <<users, listings, conversations, messages, clock, workload>>

\* UPDATE messages SET read = true ...; msgs.rows.map(...); res.json
ViewMarkRead(k) ==
  /\ At(k, "view", "markRead")
  /\ LET r == inflight[k]
     IN  /\ messages' = MarkRead(messages, r.id, r.user)
         /\ Reply(k, ViewResp(r, 200, "",
                    [i \in 1..Len(r.msgs) |->
                       ViewModel(r.isSeller, r.sellerPaid, r.c, r.msgs[i])],
                    r.isSeller /\ ~r.sellerPaid))
  /\ UNCHANGED <<users, listings, conversations, clock, workload>>

----------------------------------------------------------------------------
(* POST /api/conversations/:id/messages: append *)

AppendResp(r, status, error, msg) ==
  [op |-> "append", status |-> status, error |-> error, req |-> r, message |-> msg]

\* if (!text) return 400; SELECT * FROM conversations WHERE id = $1 AND (...)
AppendSelectConvo(k, u, id, text) ==
  /\ FreeConn(k)
  /\ Authenticated(u)
  /\ LET rows == ConvForParticipant(conversations, id, u)
         \* paidAtStart: the paid flag of the caller as the request arrived (history).
         r == [op |-> "append", pc |-> "selectPaid", user |-> u, id |-> id, text |-> text,
               paidAtStart |-> users[u].paid]
     IN  IF text = EmptyText
           THEN Reply(k, AppendResp(r, 400, "ValidationError", << >>))
           ELSE IF Len(rows) = 0
             THEN Reply(k, AppendResp(r, 403, "Forbidden", << >>))
             ELSE LET c == rows[1]
                      isSeller == c.seller_id = u
                      q == r @@ [c |-> c, isSeller |-> isSeller]
                  IN  IF isSeller
                        THEN Goto(k, q)
                        ELSE Goto(k, [q EXCEPT !.pc = "insert"])
  /\ UNCHANGED <<users, listings, conversations, messages, clock, workload>>

\* SELECT paid FROM users WHERE id = $1; if (!seller.rows[0].paid) return 403
AppendSelectPaid(k) ==
  /\ At(k, "append", "selectPaid")
  /\ LET r == inflight[k] @@ [paid |-> users[inflight[k].user].paid]
     IN  IF SendBlocked(r.isSeller, r.paid)
           THEN Reply(k, AppendResp(r, 403, "PaymentRequired", << >>))
           ELSE Goto(k, [r EXCEPT !.pc = "insert"])
  /\ UNCHANGED <<users, listings, conversations, messages, clock, workload>>

\* INSERT INTO messages (conversation_id, sender_id, text) ... RETURNING *
AppendInsert(k) ==
  /\ At(k, "append", "insert")
  /\ Len(messages) < MaxMsgs
  /\ LET r == inflight[k]
         row == NewMessage(Len(messages) + 1, r.id, r.user, r.text, clock)
     IN  /\ messages' = Append(messages, row)
         /\ Goto(k, [r EXCEPT !.pc = "bump"] @@ [row |-> row])
  /\ UNCHANGED <<users, listings, conversations, clock, workload>>

\* UPDATE conversations SET updated_at = NOW() WHERE id = $1; res.status(201)
AppendBump(k) ==
  /\ At(k, "append", "bump")
  /\ LET r == inflight[k]
     IN  /\ conversations' = BumpConversation(conversations, r.id, clock)
         /\ Reply(k, AppendResp(r, 201, "", <<r.row>>))
  /\ UNCHANGED <<users, listings, messages, clock, workload>>

----------------------------------------------------------------------------
(* POST /api/stripe/webhook: the payment event handler *)

Completed == "checkout.session.completed"
\* A well-formed id that no user has, and a string that is no UUID.
GhostId == "ghost"
MalformedId == "not-a-uuid"
\* session.metadata is absent (Null), or holds user_id: absent (Null), "" or an id.
WebhookReq(sigOK, type, metadata, payment_intent) ==
  [sigOK |-> sigOK, type |-> type, metadata |-> metadata,
   payment_intent |-> Some(payment_intent)]
\* Verified checkout-completed events that name an account.
PaymentEvents ==
  {WebhookReq(TRUE, Completed, Some(Some(u)), p) : u \in UserIds, p \in PayRefs}
\* Verified checkout-completed events that name no account.
UntargetedEvents ==
  {WebhookReq(TRUE, Completed, m, "pi_1") :
     m \in {Null, Some(Null), Some(Some("")), Some(Some(GhostId)), Some(Some(MalformedId))}}
\* Verified events of another type, and requests whose signature does not verify.
OtherRequests ==
  {WebhookReq(TRUE, "payment_intent.succeeded", Some(Some(u)), "pi_1") : u \in UserIds}
    \cup {WebhookReq(FALSE, Completed, Some(Some(u)), "pi_1") : u \in UserIds}
WebhookRequests == PaymentEvents \cup UntargetedEvents \cup OtherRequests

\* was: the row of the account the event names as the step found it (history).
WebhookResp(req, status, error) ==
  [op |-> "webhook", status |-> status, error |-> error, req |-> req,
   was |-> IF req.metadata # Null /\ req.metadata[1] # Null
                /\ req.metadata[1][1] \in DOMAIN users
             THEN Some(users[req.metadata[1][1]])
             ELSE Null]

\* if (userId): undefined and "" are falsy
Truthy(opt) == opt # Null /\ opt[1] # ""

PaymentEventUnverified(req) ==
  IF req.metadata # Null /\ Truthy(req.metadata[1]) /\ req.metadata[1][1] # MalformedId
    THEN /\ users' = SetPaid(users, req.metadata[1][1], req.payment_intent, clock)
         /\ resp' = WebhookResp(req, 200, "")
    ELSE /\ resp' = WebhookResp(req, 200, "")
         /\ UNCHANGED users

\* The handler has no try/catch around what follows constructEvent: a throw
\* there (session.metadata.user_id of an absent metadata, the store rejecting
\* a user id that is no UUID) leaves the request without a response (status 0).
PaymentEvent(req) ==
  IF ~req.sigOK
    THEN /\ resp' = WebhookResp(req, 400, "WebhookError")
         /\ UNCHANGED users
    ELSE IF req.type # Completed
      THEN /\ resp' = WebhookResp(req, 200, "")
           /\ UNCHANGED users
      ELSE IF req.metadata = Null
        THEN /\ resp' = WebhookResp(req, 0, "TypeError")
             /\ UNCHANGED users
        ELSE LET userId == req.metadata[1]
             IN  IF ~Truthy(userId)
                   THEN /\ resp' = WebhookResp(req, 200, "")
                        /\ UNCHANGED users
                   ELSE IF userId[1] = MalformedId
                     THEN /\ resp' = WebhookResp(req, 0, "DatabaseError")
                          /\ UNCHANGED users
                     ELSE /\ users' = SetPaid(users, userId[1], req.payment_intent, clock)
                          /\ resp' = WebhookResp(req, 200, "")

Webhook(req) ==
  /\ Ready
  /\ PaymentEvent(req)
  /\ UNCHANGED <<listings, conversations, messages, clock, inflight, workload>>

----------------------------------------------------------------------------
(* Accounts: signup, profile, checkout, status *)

AccountResp(op, u, status, error, body) ==
  [op |-> op, status |-> status, error |-> error, user |-> u, body |-> body]

\* SELECT id FROM users WHERE email = $1 (u stands for the account of that email)
SignupSelect(k, u, name) ==
  /\ FreeConn(k)
  /\ IF u \in DOMAIN users
       THEN Reply(k, AccountResp("signup", u, 409, "Conflict", << >>))
       ELSE Goto(k, [op |-> "signup", pc |-> "insert", user |-> u, name |-> name])
  /\ UNCHANGED <<users, listings, conversations, messages, clock, workload>>

\* INSERT INTO users ... RETURNING id, name, email, role, paid, created_at
\* (email is UNIQUE: a second insert throws into the catch)
SignupInsert(k) ==
  /\ At(k, "signup", "insert")
  /\ LET r == inflight[k]
     IN  IF r.user \in DOMAIN users
           THEN /\ Reply(k, AccountResp("signup", r.user, 500, "ServerError", << >>))
                /\ UNCHANGED users
           ELSE /\ users' = InsertUser(users, r.user, r.name)
                /\ Reply(k, AccountResp("signup", r.user, 201, "", <<users'[r.user]>>))
  /\ UNCHANGED <<listings, conversations, messages, clock, workload>>

\* PUT /api/auth/profile
UpdateProfile(u, name) ==
  /\ Ready
  /\ Authenticated(u)
  /\ users' = SetProfile(users, u, name)
  /\ resp' = AccountResp("profile", u, 200, "", <<users'[u]>>)
  /\ UNCHANGED <<listings, conversations, messages, clock, inflight, workload>>

\* POST /api/stripe/create-checkout: SELECT * FROM users WHERE id = $1
CheckoutSelectUser(k, u) ==
  /\ FreeConn(k)
  /\ Authenticated(u)
  /\ IF users[u].paid
       THEN Reply(k, AccountResp("checkout", u, 400, "InvalidOperation", << >>))
       ELSE Goto(k, [op |-> "checkout", pc |-> "createSession", user |-> u])
  /\ UNCHANGED <<users, listings, conversations, messages, clock, workload>>

\* stripe.checkout.sessions.create({... metadata: {user_id: req.user.id}}), or its throw
CheckoutCreateSession(k) ==
  /\ At(k, "checkout", "createSession")
  /\ LET r == inflight[k]
     IN  \E ok \in BOOLEAN : \E p \in PayRefs :
           IF ok
             THEN Reply(k, AccountResp("checkout", r.user, 200, "",
                     <<[metadata |-> Some(Some(r.user)), payment_intent |-> Some(p)]>>))
             ELSE Reply(k, AccountResp("checkout", r.user, 500, "PaymentSetupFailed", << >>))
  /\ UNCHANGED <<users, listings, conversations, messages, clock, workload>>

\* GET /api/stripe/status: SELECT paid, paid_at FROM users WHERE id = $1
PaymentStatus(u) ==
  /\ Ready
  /\ Authenticated(u)
  /\ resp' = AccountResp("status", u, 200, "",
               <<[paid |-> users[u].paid, paid_at |-> users[u].paid_at]>>)
  /\ UNCHANGED <<users, listings, conversations, messages, clock, inflight, workload>>

----------------------------------------------------------------------------
(* The system: every request may arrive at any time. *)

\* The webhook requests of each workload: while messaging, the payment events
\* of the two participants; with payments, every kind of request.
WebhookTraffic ==
  IF workload = "messaging"
    THEN {WebhookReq(TRUE, Completed, Some(Some(u)), "pi_1") : u \in {"s", "b"}}
    ELSE WebhookRequests

\* Conversation ids in requests: those of the store, and 0, which none has.
\* The view requests <<user, id>> of each workload: while messaging, those
\* for the open conversation; otherwise every kind.
ViewTraffic ==
  IF workload = "messaging"
    THEN {<<u, id>> : u \in UserIds, id \in 1..Len(conversations)}
    ELSE {<<u, id>> : u \in UserIds, id \in 0..Len(conversations)}

\* The append requests <<user, id, text>> of each workload: while messaging,
\* texts for the open conversation; over time, the buyers writing in their
\* conversations; in the ordering workload, each buyer writing a first
\* message; while reading, the requests that are turned away (no text, no
\* such conversation, or not a participant).
AppendTraffic ==
  LET all == {<<u, id, text>> : u \in UserIds, id \in 0..Len(conversations),
                                text \in Texts \cup {EmptyText}}
  IN  CASE workload = "messaging" -> {a \in all : a[2] # 0 /\ a[3] # EmptyText}
        [] workload = "timeline" ->
             {a \in all : /\ a[2] # 0
                          /\ a[1] = conversations[a[2]].buyer_id
                          /\ a[3] # EmptyText}
        [] workload = "ordering" ->
             {a \in all : /\ a[2] # 0
                          /\ a[1] = conversations[a[2]].buyer_id
                          /\ a[3] # EmptyText
                          /\ Len(MsgsOfConv(messages, a[2])) = 0}
        [] OTHER ->
             {a \in all : \/ a[3] = EmptyText
                          \/ a[2] = 0
                          \/ a[1] \notin {conversations[a[2]].buyer_id,
                                          conversations[a[2]].seller_id}}

Next ==
  \/ Respond
  \/ Tick
  \/ \E k \in Conns : \E u \in UserIds : \E l \in ListingIds \cup {NoListing} :
       Sends("getOrCreate") /\ GocSelectListing(k, u, l)
  \/ \E k \in Conns : GocSelectConvo(k)
  \/ \E k \in Conns : GocInsert(k)
  \/ \E k \in Conns : \E u \in UserIds : \E l \in ListingIds \cup {NoListing} :
       \E status \in {Null} \cup {Some(st) : st \in Statuses} :
         Sends("updateListing") /\ UpdateListingSelect(k, u, l, status)
  \/ \E k \in Conns : UpdateListingUpdate(k)
  \/ \E u \in UserIds : Sends("list") /\ ListConversations(u)
  \/ \E k \in Conns : \E v \in ViewTraffic :
       Sends("view") /\ ViewSelectConvo(k, v[1], v[2])
  \/ \E k \in Conns : ViewSelectPaid(k)
  \/ \E k \in Conns : ViewSelectMsgs(k)
  \/ \E k \in Conns : ViewMarkRead(k)
  \/ \E k \in Conns : \E a \in AppendTraffic :
       Sends("append") /\ AppendSelectConvo(k, a[1], a[2], a[3])
  \/ \E k \in Conns : AppendSelectPaid(k)
  \/ \E k \in Conns : AppendInsert(k)
  \/ \E k \in Conns : AppendBump(k)
  \/ \E req \in WebhookTraffic : Sends("webhook") /\ Webhook(req)
  \/ \E k \in Conns : \E u \in UserIds : \E name \in Names :
       Sends("signup") /\ SignupSelect(k, u, name)
  \/ \E k \in Conns : SignupInsert(k)
  \/ \E u \in UserIds : \E name \in {Null} \cup {Some(n) : n \in Names} :
       Sends("profile") /\ UpdateProfile(u, name)
  \/ \E k \in Conns : \E u \in UserIds : Sends("checkout") /\ CheckoutSelectUser(k, u)
  \/ \E k \in Conns : CheckoutCreateSession(k)
  \/ \E u \in UserIds : Sends("status") /\ PaymentStatus(u)

Spec == Init /\ [][Next]_vars

----------------------------------------------------------------------------
(* Properties. *)

\* The response of the last step is the successful response of a view.
Viewed == resp.op = "view" /\ resp.status = 200

\* C1: every message a listForConversation returns is redacted (placeholder
\* text, locked) exactly when the viewer is the conversation's seller, the
\* paid flag that call read is false and the sender is the buyer; any other
\* message keeps its text and is not locked.  A seller whose flag is still
\* false when the response leaves gets every buyer message redacted.
C1_VisibilityRule ==
  Viewed =>
    LET c == conversations[resp.req.id]
        viewer == resp.req.user
    IN  \A i \in 1..Len(resp.messages) :
          LET v == resp.messages[i]
              m == messages[v.id]
              redact == /\ viewer = c.seller_id
                        /\ ~resp.req.sellerPaid
                        /\ m.sender_id = c.buyer_id
          IN  /\ m.conversation_id = c.id
              /\ IF redact
                   THEN v.text = Placeholder /\ v.locked
                   ELSE v.text = m.text /\ ~v.locked
              /\ (viewer = c.seller_id /\ ~users[viewer].paid /\ m.sender_id = c.buyer_id)
                   => redact

\* A view that returns a redacted buyer message next to the seller's own,
\* unredacted message (the seller paid and wrote while the view was running).
C1_Witness ==
  /\ Viewed
  /\ \E i \in 1..Len(resp.messages) : resp.messages[i].locked
  /\ \E i \in 1..Len(resp.messages) :
       /\ ~resp.messages[i].locked
       /\ resp.messages[i].sender_id = resp.req.user

\* The response of the last step answers an append with a text by a participant.
AppendedByParticipant ==
  /\ resp.op = "append"
  /\ resp.req.text # EmptyText
  /\ resp.req.id \in 1..Len(conversations)
  /\ resp.req.user \in {conversations[resp.req.id].buyer_id,
                        conversations[resp.req.id].seller_id}

\* C2: an append with a text by a participant is rejected with PaymentRequired
\* exactly when the sender is the conversation's seller and the seller's paid
\* flag is false; the buyer's append is never rejected so.
C2_SendRule ==
  AppendedByParticipant =>
    LET c == conversations[resp.req.id]
        u == resp.req.user
    IN  /\ (resp.error = "PaymentRequired") <=> (u = c.seller_id /\ ~resp.req.paid)
        /\ (resp.error = "PaymentRequired") <=> (u = c.seller_id /\ ~users[u].paid)
        /\ u = c.buyer_id => resp.status = 201

\* An unpaid seller's append is rejected.
C2_Witness ==
  /\ AppendedByParticipant
  /\ resp.error = "PaymentRequired"
  /\ ~users[conversations[resp.req.id].buyer_id].paid

\* C3: no response to a conversation's seller whose paid flag is false holds
\* the text of a message of that conversation's buyer, neither the messages
\* of listForConversation nor the last_message preview of list.
C3_NoBuyerTextForUnpaidSeller ==
  /\ Viewed =>
       LET c == conversations[resp.req.id]
       IN  (resp.req.user = c.seller_id /\ ~users[c.seller_id].paid) =>
             \A i \in 1..Len(resp.messages) :
               messages[resp.messages[i].id].sender_id = c.buyer_id
                 => resp.messages[i].text # messages[resp.messages[i].id].text
  /\ resp.op = "list" =>
       \A i \in 1..Len(resp.conversations) :
         LET row == resp.conversations[i]
         IN  (row.seller_id = resp.user /\ ~users[resp.user].paid) =>
               \A j \in 1..Len(messages) :
                 (messages[j].conversation_id = row.id
                    /\ messages[j].sender_id = row.buyer_id)
                   => row.last_message # Some(messages[j].text)


\* C4: the conversation store never holds two conversations of the same
\* (listing, buyer) pair.
C4_OnePerListingBuyer ==
  \A i \in 1..Len(conversations) : \A j \in 1..Len(conversations) :
    (/\ conversations[i].listing_id = conversations[j].listing_id
     /\ conversations[i].buyer_id = conversations[j].buyer_id) => i = j

\* A getOrCreate is about to insert the conversation another call has
\* inserted since it looked.
C4_Witness ==
  \E k \in Conns :
    /\ inflight[k].op = "getOrCreate"
    /\ inflight[k].pc = "insert"
    /\ Len(ConvByListingBuyer(conversations, inflight[k].listing_id, inflight[k].user)) = 1

\* The response of the last step answers a getOrCreate of a user for an
\* existing listing of another user.
GotOrCreated ==
  /\ resp.op = "getOrCreate"
  /\ resp.listing_id \in DOMAIN listings
  /\ listings[resp.listing_id].seller_id # resp.user

\* C5 (as claimed): every getOrCreate for an existing listing of another user,
\* also one that loses the insert race, answers with success and the one
\* conversation of its (listing, buyer) pair.
C5_RaceLoserGetsWinnersRow ==
  GotOrCreated =>
    /\ resp.status = 200
    /\ resp.conversation = ConvByListingBuyer(conversations, resp.listing_id, resp.user)

\* C6: a step of a getOrCreate that finds the conversation of its pair in the
\* store adds and changes no conversation, and the call's lookup answers with
\* that very row (same id, seller and updated_at).
C6_GetIsIdempotent ==
  [][\A k \in Conns :
       LET r == inflight[k]
           rows == SelectSeq(conversations,
                     LAMBDA c : c.listing_id = r.listing_id /\ c.buyer_id = r.user)
       IN  (r.op = "getOrCreate" /\ inflight'[k] # r /\ Len(rows) > 0) =>
             /\ conversations' = conversations
             /\ r.pc = "selectConvo" =>
                  /\ resp'.op = "getOrCreate"
                  /\ resp'.status = 200
                  /\ resp'.user = r.user
                  /\ resp'.conversation = rows
                  /\ Len(rows) = 1]_vars

\* A getOrCreate returned a conversation that it did not create, later than
\* the conversation was created.
C6_Witness ==
  /\ GotOrCreated
  /\ resp.status = 200
  /\ ~resp.created
  /\ resp.conversation[1].updated_at < clock

\* C7: a paid flag that is true stays true.
C7_PaidIsMonotonic ==
  [][\A u \in DOMAIN users :
       users[u].paid => (u \in DOMAIN users' /\ users'[u].paid)]_vars

\* A paid account updated its profile.
C7_Witness ==
  /\ resp.op = "profile"
  /\ users[resp.user].paid
  /\ users[resp.user].name = "n1"

\* The last step was the payment event handler setting the paid flag of u.
PaymentHandled(r, u) ==
  /\ r.op = "webhook"
  /\ r.status = 200
  /\ r.req.sigOK
  /\ r.req.type = Completed
  /\ r.req.metadata = Some(Some(u))

\* C8: a paid flag turns true only in a step of the payment event handler for
\* that account; a new account starts with paid = false; every other step
\* leaves every paid flag as it is.
C8_OnlyPaymentSetsPaid ==
  [][/\ \A u \in DOMAIN users' :
          (users'[u].paid /\ (u \notin DOMAIN users \/ ~users[u].paid))
            => PaymentHandled(resp', u)
     /\ resp'.op # "webhook" =>
          \A u \in DOMAIN users : u \in DOMAIN users' /\ users'[u].paid = users[u].paid]_vars

\* The payment event handler has set the flag of one account, and another
\* account that changed its profile is still unpaid.
C8_Witness ==
  \E u \in DOMAIN users : \E v \in DOMAIN users :
    /\ PaymentHandled(resp, u)
    /\ resp.was # Null /\ ~resp.was[1].paid
    /\ users[u].paid
    /\ users[v].name = "n1" /\ ~users[v].paid

\* The last step delivered a verified checkout-completed event for account u.
Delivered(u) ==
  /\ resp.op = "webhook"
  /\ resp.req.sigOK
  /\ resp.req.type = Completed
  /\ resp.req.metadata = Some(Some(u))

\* C9: every delivery of a verified checkout-completed event for an account,
\* the first or a repeated one, is acknowledged without error and leaves the
\* account paid with the payment reference of the event.
C9_ReplayIsIdempotent ==
  \A u \in DOMAIN users :
    Delivered(u) =>
      /\ resp.status = 200
      /\ resp.error = ""
      /\ users[u].paid
      /\ users[u].stripe_payment_id = resp.req.payment_intent
      /\ (resp.was[1].paid /\ resp.was[1].stripe_payment_id = resp.req.payment_intent)
           => [users[u] EXCEPT !.paid_at = resp.was[1].paid_at] = resp.was[1]

\* An event is delivered again, later: the account was already paid by it.
C9_Witness ==
  \E u \in DOMAIN users :
    /\ Delivered(u)
    /\ resp.was[1].paid
    /\ resp.was[1].stripe_payment_id = resp.req.payment_intent
    /\ resp.was[1].paid_at # users[u].paid_at

\* The event of a webhook request names no account: no metadata, no user_id,
\* an empty user_id, or an id that no account has.
Untargeted(req) ==
  \/ req.metadata = Null
  \/ req.metadata[1] = Null
  \/ req.metadata[1][1] = ""
  \/ req.metadata[1][1] \notin DOMAIN users

\* C10 (as claimed): a verified checkout-completed event that names no account
\* is acknowledged with success, without error, and changes no account.
C10_UntargetedIsNoOp ==
  [][(resp'.op = "webhook" /\ resp'.req.sigOK /\ resp'.req.type = Completed
        /\ Untargeted(resp'.req)) =>
       /\ resp'.status = 200
       /\ resp'.error = ""
       /\ users' = users]_vars

\* The response of the last step answers an append with a text by the seller
\* of the conversation.
AppendedBySeller ==
  /\ AppendedByParticipant
  /\ resp.req.user = conversations[resp.req.id].seller_id

\* The message an append returned is in the store as the request gave it.
Stored(r) ==
  /\ Len(r.message) = 1
  /\ r.message[1].id \in 1..Len(messages)
  /\ messages[r.message[1].id].conversation_id = r.req.id
  /\ messages[r.message[1].id].sender_id = r.req.user
  /\ messages[r.message[1].id].text = r.req.text

\* C11 (as claimed): an append of the seller that arrived while the seller's
\* paid flag was false is rejected with PaymentRequired; one that arrived
\* after the payment event was processed succeeds and adds the message.
C11_RejectedIfUnpaidAtStart ==
  AppendedBySeller =>
    IF resp.req.paidAtStart
      THEN resp.status = 201 /\ Stored(resp)
      ELSE resp.error = "PaymentRequired"

\* C11 (amended): an append of the seller whose paid check reads the flag as
\* false - so every one that ends while the flag is false - is rejected with
\* PaymentRequired and returns no message; one that arrived after the payment
\* event was processed succeeds and its message is in the conversation.
C11_SendFollowsPaidCheck ==
  AppendedBySeller =>
    /\ ~resp.req.paid => (resp.error = "PaymentRequired" /\ resp.message = << >>)
    /\ ~users[resp.req.user].paid => resp.error = "PaymentRequired"
    /\ resp.req.paidAtStart => (resp.status = 201 /\ Stored(resp))

\* A seller who paid before the request arrived has appended a message.
C11_Witness ==
  /\ AppendedBySeller
  /\ resp.req.paidAtStart
  /\ resp.status = 201
  /\ users[resp.req.user].stripe_payment_id # Null

\* The response of the last step is the successful response of a view by the
\* conversation's seller, who had paid when the request arrived.
ViewedByPaidSeller ==
  /\ Viewed
  /\ resp.req.user = conversations[resp.req.id].seller_id
  /\ resp.req.paidAtStart

\* C12: a listForConversation of the seller that arrives after the payment
\* event was processed returns locked = false and every message with its
\* stored text and locked = false, messages of the buyer that were marked
\* read before included.
C12_PaidSellerSeesAll ==
  ViewedByPaidSeller =>
    /\ ~resp.locked
    /\ \A i \in 1..Len(resp.messages) :
         /\ resp.messages[i].text = messages[resp.messages[i].id].text
         /\ resp.messages[i].text # Placeholder
         /\ ~resp.messages[i].locked

\* The paid seller is shown a buyer message that an earlier view marked read.
C12_Witness ==
  /\ ViewedByPaidSeller
  /\ \E i \in 1..Len(resp.messages) :
       /\ resp.messages[i].sender_id = conversations[resp.req.id].buyer_id
       /\ resp.messages[i].read
       /\ resp.messages[i].text = "hello"

\* C13: the step that completes a listForConversation of viewer V sets read
\* on every message of that conversation not sent by V - the messages the
\* call returned among them, redacted or not - and leaves every message of V
\* and of other conversations as it was.
C13_ViewMarksCounterpartRead ==
  [][(resp'.op = "view" /\ resp'.status = 200) =>
       /\ Len(messages') = Len(messages)
       /\ \A i \in 1..Len(messages) :
            IF /\ messages[i].conversation_id = resp'.req.id
               /\ messages[i].sender_id # resp'.req.user
              THEN messages'[i] = [messages[i] EXCEPT !.read = TRUE]
              ELSE messages'[i] = messages[i]
       /\ \A i \in 1..Len(resp'.messages) :
            /\ resp'.messages[i].id \in 1..Len(messages')
            /\ resp'.messages[i].sender_id # resp'.req.user
                 => messages'[resp'.messages[i].id].read]_vars

\* An unpaid seller viewed a conversation: the buyer's message, returned
\* redacted and unread, is now read, and the message of another conversation
\* is still unread.
C13_Witness ==
  /\ Viewed
  /\ resp.locked
  /\ \E i \in 1..Len(resp.messages) :
       /\ resp.messages[i].locked
       /\ ~resp.messages[i].read
       /\ messages[resp.messages[i].id].read
  /\ \E j \in 1..Len(messages) :
       messages[j].conversation_id # resp.req.id /\ ~messages[j].read

\* No message of conversation id that user_id did not send is unread.
AllCounterpartRead(msgs, id, user_id) ==
  \A i \in 1..Len(msgs) :
    (msgs[i].conversation_id = id /\ msgs[i].sender_id # user_id) => msgs[i].read

\* C14: every listForConversation of a participant ends without error and
\* with no unread counterpart message; when the counterpart messages were all
\* read already (an earlier or concurrent view of the same viewer marked
\* them), its marking changes no message.
C14_SecondViewChangesNothing ==
  [][(/\ resp'.op = "view"
      /\ resp'.req.id \in 1..Len(conversations)
      /\ resp'.req.user \in {conversations[resp'.req.id].buyer_id,
                             conversations[resp'.req.id].seller_id}) =>
       /\ resp'.status = 200
       /\ resp'.error = ""
       /\ AllCounterpartRead(messages', resp'.req.id, resp'.req.user)
       /\ AllCounterpartRead(messages, resp'.req.id, resp'.req.user)
            => messages' = messages]_vars

\* A view returns a counterpart message that an earlier view had marked read.
C14_Witness ==
  /\ Viewed
  /\ \E i \in 1..Len(resp.messages) :
       /\ resp.messages[i].sender_id # resp.req.user
       /\ resp.messages[i].read
  /\ AllCounterpartRead(messages, resp.req.id, resp.req.user)

\* C15: no conversation has its buyer as its seller, and a getOrCreate of the
\* listing's seller is answered InvalidOperation, with no conversation, and
\* the store holds no conversation of that listing with the seller as buyer.
C15_NoSelfConversation ==
  /\ \A i \in 1..Len(conversations) :
       conversations[i].buyer_id # conversations[i].seller_id
  /\ (/\ resp.op = "getOrCreate"
      /\ resp.listing_id \in DOMAIN listings
      /\ listings[resp.listing_id].seller_id = resp.user) =>
       /\ resp.status = 400
       /\ resp.error = "InvalidOperation"
       /\ resp.conversation = << >>
       /\ ~resp.created
       /\ \A i \in 1..Len(conversations) :
            ~(/\ conversations[i].listing_id = resp.listing_id
              /\ conversations[i].buyer_id = resp.user)

\* The seller of a listing that has a conversation, and that the seller has
\* updated since, asked for a conversation about it.
C15_Witness ==
  /\ resp.op = "getOrCreate"
  /\ resp.error = "InvalidOperation"
  /\ listings[resp.listing_id].status = "sold"
  /\ Len(conversations) > 0

\* The response of step r answers a request of a user who is neither buyer
\* nor seller of the conversation the request names.
Outsider(r) ==
  /\ r.req.id \in 1..Len(conversations)
  /\ r.req.user \notin {conversations[r.req.id].buyer_id,
                        conversations[r.req.id].seller_id}

\* C16: a listForConversation of a user who is neither buyer nor seller of
\* the conversation is answered Forbidden, with no message, and the step
\* changes no message.
C16_OutsiderViewForbidden ==
  [][(resp'.op = "view" /\ Outsider(resp')) =>
       /\ resp'.status = 403
       /\ resp'.error = "Forbidden"
       /\ resp'.messages = << >>
       /\ messages' = messages]_vars

\* An outsider asked for a conversation that holds an unread message.
C16_Witness ==
  /\ resp.op = "view"
  /\ Outsider(resp)
  /\ resp.status = 403
  /\ \E i \in 1..Len(messages) :
       messages[i].conversation_id = resp.req.id /\ ~messages[i].read

\* C17 (as claimed): an append of a user who is neither buyer nor seller of
\* the conversation is answered Forbidden whatever the text, and the step
\* adds no message and changes no conversation.
C17_OutsiderAppendForbidden ==
  [][(resp'.op = "append" /\ Outsider(resp')) =>
       /\ resp'.status = 403
       /\ resp'.error = "Forbidden"
       /\ messages' = messages
       /\ conversations' = conversations]_vars

\* C17 (amended): an append of a user who is neither buyer nor seller of the
\* conversation is answered Forbidden when it has a text and ValidationError
\* when its text is empty; it returns and adds no message and changes no
\* conversation.
C17_OutsiderAppendRejected ==
  [][(resp'.op = "append" /\ Outsider(resp')) =>
       /\ IF resp'.req.text = EmptyText
            THEN resp'.status = 400 /\ resp'.error = "ValidationError"
            ELSE resp'.status = 403 /\ resp'.error = "Forbidden"
       /\ resp'.message = << >>
       /\ messages' = messages
       /\ conversations' = conversations]_vars

\* An outsider's append with a text was answered Forbidden in a conversation
\* that has a message.
C17_Witness ==
  /\ resp.op = "append"
  /\ Outsider(resp)
  /\ resp.error = "Forbidden"
  /\ resp.req.text # EmptyText
  /\ \E i \in 1..Len(messages) : messages[i].conversation_id = resp.req.id

\* C18: the step that returns an append's success leaves the returned
\* message (created with read = false) in the store with the request's
\* conversation, sender and text, and the conversation's updated_at at the
\* store's time; a rejected append has inserted nothing and its last step
\* changes no message and no conversation; and what is stored stays for
\* every later list and listForConversation: no step removes a message or
\* moves a conversation's updated_at back.
C18_AppendEffectsStored ==
  [][/\ (resp'.op = "append" /\ resp'.status = 201) =>
          /\ Len(resp'.message) = 1
          /\ ~resp'.message[1].read
          /\ resp'.message[1].id \in 1..Len(messages')
          /\ messages'[resp'.message[1].id].conversation_id = resp'.req.id
          /\ messages'[resp'.message[1].id].sender_id = resp'.req.user
          /\ messages'[resp'.message[1].id].text = resp'.req.text
          /\ conversations'[resp'.req.id].updated_at = clock'
          /\ conversations'[resp'.req.id].updated_at >= resp'.message[1].created_at
     /\ (resp'.op = "append" /\ resp'.status # 201) =>
          /\ resp'.error \in {"ValidationError", "Forbidden", "PaymentRequired"}
          /\ resp'.message = << >>
          /\ "row" \notin DOMAIN resp'.req
          /\ messages' = messages
          /\ conversations' = conversations
     /\ Len(messages') > Len(messages) =>
          /\ Len(messages') = Len(messages) + 1
          /\ ~messages'[Len(messages')].read
     /\ Len(messages') >= Len(messages)
     /\ \A i \in 1..Len(conversations) :
          /\ i \in 1..Len(conversations')
          /\ conversations'[i].updated_at >= conversations[i].updated_at]_vars

\* An append returned its message, inserted before the store's time moved
\* on to the time of the bump.
C18_Witness ==
  /\ resp.op = "append"
  /\ resp.status = 201
  /\ resp.message[1].created_at < conversations[resp.req.id].updated_at
  /\ messages[resp.message[1].id].text = resp.req.text

\* C19: no step changes a stored message's conversation, sender or text, or
\* removes it, and no step sets a read flag that is true back to false.
C19_MessagesImmutable ==
  [][\A i \in 1..Len(messages) :
       /\ i \in 1..Len(messages')
       /\ messages'[i].id = messages[i].id
       /\ messages'[i].conversation_id = messages[i].conversation_id
       /\ messages'[i].sender_id = messages[i].sender_id
       /\ messages'[i].text = messages[i].text
       /\ messages'[i].created_at = messages[i].created_at
       /\ messages[i].read => messages'[i].read]_vars

\* The sender of a message that its counterpart has read views the
\* conversation, which holds an unread message of the counterpart too.
C19_Witness ==
  /\ Viewed
  /\ \E i \in 1..Len(resp.messages) :
       resp.messages[i].sender_id = resp.req.user /\ resp.messages[i].read
  /\ \E i \in 1..Len(resp.messages) :
       resp.messages[i].sender_id # resp.req.user /\ ~resp.messages[i].read
  /\ \A i \in 1..Len(messages) : messages[i].read

\* The unread messages of conversation id for user_id, counted in the store.
UnreadOf(id, user_id) ==
  {j \in 1..Len(messages) : /\ messages[j].conversation_id = id
                            /\ messages[j].sender_id # user_id
                            /\ ~messages[j].read}

\* C20: a list of user U returns one row for each conversation that has U as
\* buyer or seller and no other row, each with the conversation's stored
\* fields, and with unread_count the number of messages of that conversation
\* not sent by U and not read.
C20_ListIsExact ==
  resp.op = "list" =>
    LET rows == resp.conversations
        mine == {j \in 1..Len(conversations) :
                   resp.user \in {conversations[j].buyer_id, conversations[j].seller_id}}
    IN  /\ resp.status = 200
        /\ {rows[i].id : i \in 1..Len(rows)} = mine
        /\ Len(rows) = Cardinality(mine)
        /\ \A i \in 1..Len(rows) :
             /\ rows[i].listing_id = conversations[rows[i].id].listing_id
             /\ rows[i].buyer_id = conversations[rows[i].id].buyer_id
             /\ rows[i].seller_id = conversations[rows[i].id].seller_id
             /\ rows[i].updated_at = conversations[rows[i].id].updated_at
             /\ rows[i].unread_count = Cardinality(UnreadOf(rows[i].id, resp.user))

\* The seller lists two conversations, one read and one not, while a third
\* user is in one of them only.
C20_Witness ==
  /\ resp.op = "list"
  /\ Len(resp.conversations) = 2
  /\ resp.conversations[1].unread_count # resp.conversations[2].unread_count
  /\ \E u \in DOMAIN users : \E j \in 1..Len(conversations) :
       /\ u # resp.user
       /\ u \notin {conversations[j].buyer_id, conversations[j].seller_id}

\* C21: no step changes the buyer, seller or listing of a stored
\* conversation; a conversation that a step creates has the seller of its
\* listing; and the seller that a running view or append decides the paywall
\* by is the stored seller of its conversation.
C21_PartiesFixed ==
  [][/\ \A i \in 1..Len(conversations) :
          /\ i \in 1..Len(conversations')
          /\ conversations'[i].id = conversations[i].id
          /\ conversations'[i].buyer_id = conversations[i].buyer_id
          /\ conversations'[i].seller_id = conversations[i].seller_id
          /\ conversations'[i].listing_id = conversations[i].listing_id
     /\ \A i \in 1..Len(conversations') :
          i > Len(conversations) =>
            /\ conversations'[i].listing_id \in DOMAIN listings
            /\ conversations'[i].seller_id = listings[conversations'[i].listing_id].seller_id
     /\ \A k \in Conns :
          (inflight'[k].op \in {"view", "append"} /\ "isSeller" \in DOMAIN inflight'[k]) =>
            inflight'[k].isSeller =
              (conversations'[inflight'[k].id].seller_id = inflight'[k].user)]_vars

\* The seller updated the listing after a buyer opened a conversation about
\* it, later than the conversation was created.
C21_Witness ==
  /\ resp.op = "updateListing"
  /\ resp.status = 200
  /\ listings[resp.listing_id].status = "sold"
  /\ \E i \in 1..Len(conversations) :
       /\ conversations[i].listing_id = resp.listing_id
       /\ conversations[i].seller_id = resp.user
       /\ conversations[i].updated_at < clock

\* C22: a webhook request whose signature does not verify is answered with
\* an error, and a verified event of another type than checkout-completed is
\* acknowledged; neither changes any account, whatever user its payload names.
C22_UnverifiedChangesNothing ==
  [][resp'.op = "webhook" =>
       /\ ~resp'.req.sigOK =>
            /\ resp'.status = 400
            /\ resp'.error = "WebhookError"
            /\ users' = users
       /\ (resp'.req.sigOK /\ resp'.req.type # Completed) =>
            /\ resp'.status = 200
            /\ resp'.error = ""
            /\ users' = users]_vars

\* A request that does not verify named an account that is still unpaid.
C22_Witness ==
  /\ resp.op = "webhook"
  /\ ~resp.req.sigOK
  /\ resp.status = 400
  /\ resp.req.metadata[1][1] \in DOMAIN users
  /\ ~users[resp.req.metadata[1][1]].paid
  /\ resp.was # Null

\* C23: while the seller of a conversation is unpaid, every message of the
\* conversation is of its buyer, and no append of that seller has passed the
\* paid check.
C23_UnpaidSellerHasNoMessage ==
  \A i \in 1..Len(conversations) :
    ~users[conversations[i].seller_id].paid =>
      /\ \A j \in 1..Len(messages) :
           messages[j].conversation_id = i =>
             messages[j].sender_id = conversations[i].buyer_id
      /\ \A k \in Conns :
           (/\ inflight[k].op = "append"
            /\ inflight[k].id = i
            /\ inflight[k].user = conversations[i].seller_id) =>
             inflight[k].pc = "selectPaid"

\* An append of the seller that arrived before the payment event and was
\* checked after it has stored the seller's message.
C23_Witness ==
  /\ AppendedBySeller
  /\ ~resp.req.paidAtStart
  /\ resp.status = 201
  /\ \E j \in 1..Len(messages) :
       messages[j].sender_id = resp.req.user /\ messages[j].conversation_id = resp.req.id

\* C24 (as claimed): the step that completes a listForConversation marks
\* read only messages that the call returns: a message appended after the
\* call fetched the messages is not marked by it.
C24_ReadOnlyIfReturned ==
  [][(resp'.op = "view" /\ resp'.status = 200) =>
       \A j \in 1..Len(messages) :
         (~messages[j].read /\ messages'[j].read) =>
           \E i \in 1..Len(resp'.messages) : resp'.messages[i].id = messages[j].id]_vars

\* The response of the last step is a list sent while no append is running.
ListedAtRest ==
  /\ resp.op = "list"
  /\ \A k \in Conns : inflight[k].op # "append"

\* C25 (as claimed): a list sent when every append has completed never has a
\* conversation whose last message is later after one whose last message is
\* earlier; stated for conversations whose updated_at differ (the order of
\* conversations with the same updated_at is the store's choice).
C25_ListFollowsLastMessage ==
  ListedAtRest =>
    \A i \in 1..Len(resp.conversations) : \A j \in 1..Len(resp.conversations) :
      (/\ i < j
       /\ resp.conversations[i].updated_at # resp.conversations[j].updated_at
       /\ resp.conversations[i].last_message_at # Null
       /\ resp.conversations[j].last_message_at # Null) =>
        resp.conversations[i].last_message_at[1] >= resp.conversations[j].last_message_at[1]

\* C26 (as claimed): a create-checkout of a paid account is answered
\* InvalidOperation with no session, and no step replaces a recorded payment
\* reference by another one.
C26_PaymentRefIsFinal ==
  [][/\ (resp'.op = "checkout" /\ users[resp'.user].paid) =>
          /\ resp'.status = 400
          /\ resp'.error = "InvalidOperation"
          /\ resp'.body = << >>
     /\ \A u \in DOMAIN users :
          users[u].stripe_payment_id # Null =>
            users'[u].stripe_payment_id = users[u].stripe_payment_id]_vars

====
